---- MODULE Spec2Model ----
(***************************************************************************)
(* SmartSales core (src/core.py): one run of pipeline(leads) as a state    *)
(* machine.  Threads are the main thread (pipeline / handle_batch), one    *)
(* enrichment worker per lead and one waiter thread per scheduled          *)
(* follow-up.  A step is one access to a shared object (CRMTool.db,        *)
(* MemoryBank.mem, the Queue); dict.get, dict item assignment,             *)
(* dict.setdefault, list.append and Queue.put/get are each one step, and   *)
(* the read and the store of CRMTool.upsert are two steps because the      *)
(* interpreter may switch threads between them.  Timestamps ("ts") and     *)
(* log lines are left out; time.sleep is a delay of unknown length.        *)
(***************************************************************************)
EXTENDS Integers, Sequences, FiniteSets, TLC

VARIABLES leads, wpc, q, results, mpc, mi, mread, processed, db, mem, fus,
          scheduled, labeled, metrics, ret

vars == <<leads, wpc, q, results, mpc, mi, mread, processed, db, mem, fus,
          scheduled, labeled, metrics, ret>>

\* Longest batch handed to pipeline().
MaxLeads == 2

\* Python's None.
NoneVal == "<None>"

EmptyRec == [k \in {} |-> TRUE]

\* dict.get(k, default)
DictGet(d, k, default) == IF k \in DOMAIN d THEN d[k] ELSE default

\* {**a, **b}
Merge(a, b) ==
    [k \in DOMAIN a \cup DOMAIN b |-> IF k \in DOMAIN b THEN b[k] ELSE a[k]]

\* s.lower() on the company names of LeadPool.
Lower(s) ==
    CASE s = "FinPay" -> "finpay"
      [] s = "AcmePay" -> "acmepay"
      [] OTHER -> s

\* `sub in s` on the strings of the model.
Contains(s, sub) ==
    \/ s = sub
    \/ <<s, sub>> \in {<<"finpay", "fin">>}

\* The leads a batch is drawn from: two leads that share id L1 (one scores
\* 75, one scores exactly 50), a lead L2 that scores 55, a lead whose notes
\* cell is None (a short CSV row) and a lead with no id column.
LeadPool ==
    { [id |-> "L1", company_name |-> "FinPay", notes |-> "Series A"],
      [id |-> "L1", company_name |-> "AcmePay", notes |-> "Series A"],
      [id |-> "L2", company_name |-> "FinPay", notes |-> "Scale-up"],
      [id |-> "L2", company_name |-> "AcmePay", notes |-> NoneVal],
      [company_name |-> "AcmePay", notes |-> ""] }

Ids == {"L1", "L2"}

HasId(lead) == "id" \in DOMAIN lead

\* CompanyEnricherTool.run raises: `"Series A" in None` is a TypeError, and
\* lead['id'] in the log line is a KeyError.
EnrichFails(lead) ==
    \/ DictGet(lead, "notes", "") = NoneVal
    \/ ~HasId(lead)

\* CompanyEnricherTool.run: the enrichment attributes.
Enrich(lead) ==
    [ industry |->
        IF Contains(Lower(DictGet(lead, "company_name", "")), "fin")
        THEN "FinTech" ELSE "SaaS",
      employee_count |->
        IF Contains(DictGet(lead, "notes", ""), "Series A") THEN 75
        ELSE IF Contains(DictGet(lead, "notes", ""), "Scale-up") THEN 120
        ELSE 12,
      recent_news |-> DictGet(lead, "notes", "") ]

\* worker: combined = {**lead, **enriched}
Combined(lead) == Merge(lead, Enrich(lead))

\* ---------------------------------------------------------------- stores

\* CRMTool.get
CrmGet(d, id) == DictGet(d, id, EmptyRec)

\* CRMTool.upsert, its store: db[id] = {**base, **payload}, base being the
\* record read by the same call.
CrmStore(d, id, base, payload) ==
    [k \in DOMAIN d \cup {id} |-> IF k = id THEN Merge(base, payload) ELSE d[k]]

\* MemoryBank.read
MemRead(m, id) == DictGet(m, id, <<>>)

\* A write that stores a fresh one-element list: mem[id] = [record].
MemWriteOverwrite(m, id, record) ==
    [k \in DOMAIN m \cup {id} |-> IF k = id THEN <<record>> ELSE m[k]]

\* A write that passes the record as the default: mem.setdefault(id, [record]).
MemWriteIfAbsent(m, id, record) ==
    [k \in DOMAIN m \cup {id} |-> IF k \in DOMAIN m THEN m[k] ELSE <<record>>]

\* MemoryBank.write: mem.setdefault(id, []).append(record)
MemWrite(m, id, record) ==
    [k \in DOMAIN m \cup {id} |->
        IF k = id THEN Append(MemRead(m, id), record) ELSE m[k]]

\* ---------------------------------------------------------------- scoring

\* The qualification threshold of score() and pipeline(): score > 50.
Threshold == 50

\* A team-size rule with an exclusive bound: employee_count > 50.
RulePointsExclusive(e) ==
    (IF DictGet(e, "employee_count", 0) > 50 THEN 30 ELSE 0)
    + (IF Contains(DictGet(e, "industry", ""), "FinTech") THEN 25 ELSE 0)
    + (IF Contains(DictGet(e, "recent_news", ""), "Series A") THEN 20 ELSE 0)

\* QualificationAgent.score, the three rules.
RulePoints(e) ==
    (IF DictGet(e, "employee_count", 0) >= 50 THEN 30 ELSE 0)
    + (IF Contains(DictGet(e, "industry", ""), "FinTech") THEN 25 ELSE 0)
    + (IF Contains(DictGet(e, "recent_news", ""), "Series A") THEN 20 ELSE 0)

\* score = min(100, score)
ScoreOf(e) == IF RulePoints(e) < 100 THEN RulePoints(e) ELSE 100

\* llm_reasoning_prompt("qualification reasoning for lead")
LlmText == "LLM: lead looks promising due to funding and tech-stack match."

Reasons(e) ==
    (IF DictGet(e, "employee_count", 0) >= 50 THEN <<"Team size >= 50">> ELSE <<>>)
    \o (IF Contains(DictGet(e, "industry", ""), "FinTech")
        THEN <<"Industry match: FinTech">> ELSE <<>>)
    \o (IF Contains(DictGet(e, "recent_news", ""), "Series A")
        THEN <<"Funding signal: Series A">> ELSE <<>>)
    \o <<LlmText>>

\* score(): result = {"score": score, "reasons": reasons}
QualResult(e) == [score |-> ScoreOf(e), reasons |-> Reasons(e)]

\* An inclusive threshold: "qualified" if score>=50.
StatusOfInclusive(score) == IF score >= Threshold THEN "qualified" ELSE "nurture"

\* "qualified" if score>50 else "nurture"
StatusOf(score) == IF score > Threshold THEN "qualified" ELSE "nurture"

\* score(): the payload upserted to the CRM.
ScorePayload(e) == [score |-> ScoreOf(e), status |-> StatusOf(ScoreOf(e))]

\* An inclusive test: if q["score"] >= 50.
QualifiesInclusive(e) == QualResult(e).score >= Threshold

\* pipeline(): if q["score"] > 50
Qualifies(e) == QualResult(e).score > Threshold

\* OutreachAgent.draft: the payload, a template over the lead's fields.
DraftPayload(e) ==
    [outreach |->
        [subject |-> <<DictGet(e, "company_name", NoneVal),
                       DictGet(e, "industry", NoneVal)>>,
         body |-> <<DictGet(e, "contact_name", NoneVal),
                    DictGet(e, "recent_news", "your recent activities"),
                    DictGet(e, "company_name", NoneVal)>>]]

\* waiter(): the payload and the event of a follow-up that fires.
FollowupPayload == [followup_due |-> TRUE]
FollowupNote == "1st follow up"
FollowupEvent(note) == [followup |-> note]

EnrichedEvent(lead) == [enriched |-> Enrich(lead)]
QualEvent(e) == [qualification |-> QualResult(e)]

\* ---------------------------------------------------------------- evaluation

\* The ground-truth mappings pipeline() is called with: none, the demo's, one
\* that names a lead id L3 no batch has, and one with a single label.
LabeledMaps ==
    { EmptyRec,
      [k \in {"L1", "L2"} |-> IF k = "L1" THEN "qualified" ELSE "nurture"],
      [k \in {"L1", "L3"} |-> IF k = "L1" THEN "nurture" ELSE "qualified"],
      [k \in {"L2"} |-> "qualified"] }

\* A get that inserts the default: db.setdefault(lead_id, {}).
CrmGetInserts(d, id) == [k \in DOMAIN d \cup {id} |-> DictGet(d, k, EmptyRec)]

\* CRMTool.get, what it leaves in db: dict.get inserts nothing.
CrmGetEffect(d, id) == d

\* evaluate_predictions: db after the crm.get of every labeled id.
RECURSIVE EvalReads(_, _)
EvalReads(d, ids) ==
    IF ids = {} THEN d
    ELSE LET id == CHOOSE x \in ids : TRUE
         IN  EvalReads(CrmGetEffect(d, id), ids \ {id})

\* A default of "qualified": rec.get("status", "qualified").
PredictedDefaultQualified(rec) == DictGet(rec, "status", "qualified")

\* evaluate_predictions: predicted = rec.get("status", "nurture")
Predicted(rec) == DictGet(rec, "status", "nurture")

RECURSIVE Gcd(_, _)
Gcd(a, b) == IF b = 0 THEN a ELSE Gcd(b, a % b)

\* a / b for b > 0, as the fraction in lowest terms <<numerator, denominator>>.
Div(a, b) == <<a \div Gcd(a, b), b \div Gcd(a, b)>>

\* The float 0.0.
Zero == <<0, 1>>

\* evaluate_predictions
EvaluatePredictions(d, lab) ==
    LET pred(id) == Predicted(CrmGet(d, id))
        tp == Cardinality({id \in DOMAIN lab : pred(id) = "qualified" /\ lab[id] = "qualified"})
        fp == Cardinality({id \in DOMAIN lab : pred(id) = "qualified" /\ lab[id] # "qualified"})
        tn == Cardinality({id \in DOMAIN lab : pred(id) # "qualified" /\ lab[id] # "qualified"})
        fn == Cardinality({id \in DOMAIN lab : pred(id) # "qualified" /\ lab[id] = "qualified"})
    IN  [ precision |-> IF tp + fp > 0 THEN Div(tp, tp + fp) ELSE Zero,
          recall |-> IF tp + fn > 0 THEN Div(tp, tp + fn) ELSE Zero,
          tp |-> tp, fp |-> fp, tn |-> tn, fn |-> fn ]

\* A copy of the store: dict(self.db).
CrmAllCopy(d) == [copy |-> d]

\* CRMTool.all: return self.db, the dict object itself.
CrmAll(d) == [ref |-> "crm.db"]

\* pipeline: memory.mem, the dict object itself.
MemAttr(m) == [ref |-> "memory.mem"]

\* What the holder of a returned store sees when it looks at it.
Seen(x, live) == IF "ref" \in DOMAIN x THEN live ELSE x.copy

\* ---------------------------------------------------------------- threads

\* A join that does not wait: t.join(timeout=0).
JoinNoWait(p) == p \in {"new", "run", "write", "put", "done", "dead"}

\* Thread.join returns once the thread has ended, by return or by an
\* exception that nobody caught.
ThreadEnded(p) == p \in {"done", "dead"}

\* A join loop that misses the last thread: for t in threads[:-1].
JoinedAllButLast(n) == 1 .. (n - 1)

\* handle_batch: the threads list, every thread that was started.
JoinedThreads(n) == 1 .. n

Batches == UNION { [1 .. n -> LeadPool] : n \in 0 .. MaxLeads }

Init ==
    /\ leads \in Batches
    /\ wpc = [i \in 1 .. Len(leads) |-> "new"]
    /\ q = <<>>
    /\ results = <<>>
    /\ mpc = "spawn"
    /\ mi = 1
    /\ mread = EmptyRec
    /\ processed = <<>>
    /\ db = EmptyRec
    /\ mem = EmptyRec
    /\ fus = <<>>
    /\ scheduled = EmptyRec
    /\ labeled \in LabeledMaps
    /\ metrics = EmptyRec
    /\ ret = EmptyRec

\* handle_batch: for lead in leads: t.start(); threads.append(t)
Spawn ==
    /\ mpc = "spawn"
    /\ mi <= Len(leads)
    /\ wpc' = [wpc EXCEPT ![mi] = "run"]
    /\ mi' = mi + 1
    /\ UNCHANGED <<leads, q, results, mpc, mread, processed, db, mem, fus, scheduled, labeled, metrics, ret>>

SpawnEnd ==
    /\ mpc = "spawn"
    /\ mi > Len(leads)
    /\ mpc' = "join"
    /\ mi' = 1
    /\ UNCHANGED <<leads, wpc, q, results, mread, processed, db, mem, fus, scheduled, labeled, metrics, ret>>

\* worker: enriched = self.enricher.run(lead)
WorkerRun(i) ==
    /\ wpc[i] = "run"
    /\ ~EnrichFails(leads[i])
    /\ wpc' = [wpc EXCEPT ![i] = "write"]
    /\ UNCHANGED <<leads, q, results, mpc, mi, mread, processed, db, mem, fus, scheduled, labeled, metrics, ret>>

\* worker: enricher.run raises; nothing catches it and the thread ends.
WorkerRaise(i) ==
    /\ wpc[i] = "run"
    /\ EnrichFails(leads[i])
    /\ wpc' = [wpc EXCEPT ![i] = "dead"]
    /\ UNCHANGED <<leads, q, results, mpc, mi, mread, processed, db, mem, fus, scheduled, labeled, metrics, ret>>

\* worker: self.memory.write(lead['id'], {"enriched": enriched, ...})
WorkerWrite(i) ==
    /\ wpc[i] = "write"
    /\ mem' = MemWrite(mem, leads[i].id, EnrichedEvent(leads[i]))
    /\ wpc' = [wpc EXCEPT ![i] = "put"]
    /\ UNCHANGED <<leads, q, results, mpc, mi, mread, processed, db, fus, scheduled, labeled, metrics, ret>>

\* worker: q.put(combined)
WorkerPut(i) ==
    /\ wpc[i] = "put"
    /\ q' = Append(q, Combined(leads[i]))
    /\ wpc' = [wpc EXCEPT ![i] = "done"]
    /\ UNCHANGED <<leads, results, mpc, mi, mread, processed, db, mem, fus, scheduled, labeled, metrics, ret>>

\* handle_batch: for t in threads: t.join()
Join ==
    /\ mpc = "join"
    /\ mi <= Len(leads)
    /\ mi \in JoinedThreads(Len(leads)) => ThreadEnded(wpc[mi])
    /\ mi' = mi + 1
    /\ UNCHANGED <<leads, wpc, q, results, mpc, mread, processed, db, mem, fus, scheduled, labeled, metrics, ret>>

JoinEnd ==
    /\ mpc = "join"
    /\ mi > Len(leads)
    /\ mpc' = "drain"
    /\ UNCHANGED <<leads, wpc, q, results, mi, mread, processed, db, mem, fus, scheduled, labeled, metrics, ret>>

\* handle_batch: while not q.empty(): results.append(q.get())
Drain ==
    /\ mpc = "drain"
    /\ q # <<>>
    /\ results' = Append(results, Head(q))
    /\ q' = Tail(q)
    /\ UNCHANGED <<leads, wpc, mpc, mi, mread, processed, db, mem, fus, scheduled, labeled, metrics, ret>>

\* handle_batch: return results; pipeline: for e in enriched
HandleBatchReturn ==
    /\ mpc = "drain"
    /\ q = <<>>
    /\ mpc' = "score"
    /\ mi' = 1
    /\ UNCHANGED <<leads, wpc, q, results, mread, processed, db, mem, fus, scheduled, labeled, metrics, ret>>

\* The lead the scoring loop is at.
Cur == results[mi]

\* score(): crm.upsert, the read of the record.
ScoreRead ==
    /\ mpc = "score"
    /\ mi <= Len(results)
    /\ mread' = CrmGet(db, Cur.id)
    /\ mpc' = "score_w"
    /\ UNCHANGED <<leads, wpc, q, results, mi, processed, db, mem, fus, scheduled, labeled, metrics, ret>>

\* score(): crm.upsert, the store of the merged record.
ScoreStore ==
    /\ mpc = "score_w"
    /\ db' = CrmStore(db, Cur.id, mread, ScorePayload(Cur))
    /\ mpc' = "score_m"
    /\ UNCHANGED <<leads, wpc, q, results, mi, mread, processed, mem, fus, scheduled, labeled, metrics, ret>>

\* score(): memory.write of the qualification event; a lead that does not
\* qualify is appended to processed.
ScoreMem ==
    /\ mpc = "score_m"
    /\ mem' = MemWrite(mem, Cur.id, QualEvent(Cur))
    /\ IF Qualifies(Cur)
       THEN /\ mpc' = "draft"
            /\ UNCHANGED <<mi, processed>>
       ELSE /\ mpc' = "score"
            /\ mi' = mi + 1
            /\ processed' = Append(processed, Merge(Cur, QualResult(Cur)))
    /\ UNCHANGED <<leads, wpc, q, results, mread, db, fus, scheduled, labeled, metrics, ret>>

\* draft(): crm.upsert, the read of the record.
DraftRead ==
    /\ mpc = "draft"
    /\ mread' = CrmGet(db, Cur.id)
    /\ mpc' = "draft_w"
    /\ UNCHANGED <<leads, wpc, q, results, mi, processed, db, mem, fus, scheduled, labeled, metrics, ret>>

\* draft(): crm.upsert, the store of the merged record.
DraftStore ==
    /\ mpc = "draft_w"
    /\ db' = CrmStore(db, Cur.id, mread, DraftPayload(Cur))
    /\ mpc' = "sched"
    /\ UNCHANGED <<leads, wpc, q, results, mi, mread, processed, mem, fus, scheduled, labeled, metrics, ret>>

\* schedule(): the waiter thread is started and registered under the lead's
\* id; pipeline appends the lead to processed.
Schedule ==
    /\ mpc = "sched"
    /\ fus' = Append(fus, [id |-> Cur.id, pc |-> "sleep", base |-> EmptyRec,
                           note |-> FollowupNote])
    /\ scheduled' = [k \in DOMAIN scheduled \cup {Cur.id} |->
                        IF k = Cur.id
                        THEN [thread |-> Len(fus) + 1, note |-> FollowupNote,
                              delay |-> 5]
                        ELSE scheduled[k]]
    /\ processed' = Append(processed, Merge(Cur, QualResult(Cur)))
    /\ mi' = mi + 1
    /\ mpc' = "score"
    /\ UNCHANGED <<leads, wpc, q, results, mread, db, mem, labeled, metrics, ret>>

\* pipeline: the loop is over; metrics = {}, and evaluate_predictions when
\* labeled is not empty.
Evaluate ==
    /\ mpc = "score"
    /\ mi > Len(results)
    /\ IF DOMAIN labeled # {}
       THEN /\ metrics' = EvaluatePredictions(db, labeled)
            /\ db' = EvalReads(db, DOMAIN labeled)
       ELSE /\ metrics' = EmptyRec
            /\ db' = db
    /\ mpc' = "metrics"
    /\ UNCHANGED <<leads, wpc, q, results, mi, mread, processed, mem, fus, scheduled, labeled, ret>>

\* pipeline: return {"processed", "crm": crm.all(), "memory": memory.mem,
\* "metrics"}
PipelineReturn ==
    /\ mpc = "metrics"
    /\ ret' = [processed |-> processed, crm |-> CrmAll(db), memory |-> MemAttr(mem),
               metrics |-> metrics]
    /\ mpc' = "returned"
    /\ UNCHANGED <<leads, wpc, q, results, mi, mread, processed, db, mem, fus, scheduled, labeled, metrics>>

\* __main__: after pipeline returns the main thread sleeps, prints and ends;
\* the process exits and its daemon threads stop where they are.
ProcessExit ==
    /\ mpc = "returned"
    /\ mpc' = "exited"
    /\ UNCHANGED <<leads, wpc, q, results, mi, mread, processed, db, mem, fus, scheduled, labeled, metrics, ret>>

\* The process has not exited.
Running == mpc # "exited"

\* waiter: time.sleep is over; crm.upsert, the read of the record.
WaiterRead(f) ==
    /\ Running
    /\ fus[f].pc = "sleep"
    /\ fus' = [fus EXCEPT ![f].pc = "upsert", ![f].base = CrmGet(db, fus[f].id)]
    /\ UNCHANGED <<leads, wpc, q, results, mpc, mi, mread, processed, db, mem, scheduled, labeled, metrics, ret>>

\* waiter: crm.upsert, the store of the merged record.
WaiterStore(f) ==
    /\ Running
    /\ fus[f].pc = "upsert"
    /\ db' = CrmStore(db, fus[f].id, fus[f].base, FollowupPayload)
    /\ fus' = [fus EXCEPT ![f].pc = "mem"]
    /\ UNCHANGED <<leads, wpc, q, results, mpc, mi, mread, processed, mem, scheduled, labeled, metrics, ret>>

\* waiter: memory.write of the follow-up event; the thread ends.
WaiterMem(f) ==
    /\ Running
    /\ fus[f].pc = "mem"
    /\ mem' = MemWrite(mem, fus[f].id, FollowupEvent(fus[f].note))
    /\ fus' = [fus EXCEPT ![f].pc = "done"]
    /\ UNCHANGED <<leads, wpc, q, results, mpc, mi, mread, processed, db, scheduled, labeled, metrics, ret>>

Next ==
    \/ Spawn
    \/ SpawnEnd
    \/ \E i \in 1 .. Len(leads) : WorkerRun(i)
    \/ \E i \in 1 .. Len(leads) : WorkerRaise(i)
    \/ \E i \in 1 .. Len(leads) : WorkerWrite(i)
    \/ \E i \in 1 .. Len(leads) : WorkerPut(i)
    \/ Join
    \/ JoinEnd
    \/ Drain
    \/ HandleBatchReturn
    \/ ScoreRead
    \/ ScoreStore
    \/ ScoreMem
    \/ DraftRead
    \/ DraftStore
    \/ Schedule
    \/ Evaluate
    \/ PipelineReturn
    \/ ProcessExit
    \/ \E f \in 1 .. Len(fus) : WaiterRead(f)
    \/ \E f \in 1 .. Len(fus) : WaiterStore(f)
    \/ \E f \in 1 .. Len(fus) : WaiterMem(f)

Spec == Init /\ [][Next]_vars

\* ---------------------------------------------------------------- scheduling

\* The steps of the main thread.
MainStep ==
    \/ Spawn \/ SpawnEnd \/ Join \/ JoinEnd \/ Drain \/ HandleBatchReturn
    \/ ScoreRead \/ ScoreStore \/ ScoreMem \/ DraftRead \/ DraftStore \/ Schedule
    \/ Evaluate \/ PipelineReturn \/ ProcessExit

\* The steps of worker i after its enrichment call has returned.
WorkerStep(i) == i \in 1 .. Len(leads) /\ (WorkerWrite(i) \/ WorkerPut(i))

\* The steps of waiter f.
WaiterStep(f) ==
    f \in 1 .. Len(fus) /\ (WaiterRead(f) \/ WaiterStore(f) \/ WaiterMem(f))

\* The interpreter runs every thread that can take a step; the enrichment
\* call (enricher.run, a port to an outside service) is not bound to end.
SpecFair ==
    /\ Spec
    /\ WF_vars(MainStep)
    /\ \A i \in 1 .. MaxLeads : WF_vars(WorkerStep(i))
    /\ \A f \in 1 .. MaxLeads : WF_vars(WaiterStep(f))

\* ---------------------------------------------------------------- score()

\* A field that may be absent: no key, or the key with one of vals.
OptField(name, vals) == {EmptyRec} \cup {[k \in {name} |-> v] : v \in vals}

\* The leads score() is applied to: every combination of the attributes its
\* rules read, absent ones included.
ScoreInputs ==
    { Merge(Merge(Merge([id |-> "L1"], a), b), c) :
        a \in OptField("employee_count", {0, 12, 49, 50, 51, 75, 120}),
        b \in OptField("industry", {"", "SaaS", "FinTech"}),
        c \in OptField("recent_news", {"", "Series A", "Scale-up"}) }

\* The scoring loop of pipeline() entered with one enriched lead.
InitScore ==
    /\ leads = <<>>
    /\ wpc = <<>>
    /\ q = <<>>
    /\ results \in {<<e>> : e \in ScoreInputs}
    /\ mpc = "score"
    /\ mi = 1
    /\ mread = EmptyRec
    /\ processed = <<>>
    /\ db = EmptyRec
    /\ mem = EmptyRec
    /\ fus = <<>>
    /\ scheduled = EmptyRec
    /\ labeled = EmptyRec
    /\ metrics = EmptyRec
    /\ ret = EmptyRec

NextScore ==
    \/ ScoreRead
    \/ ScoreStore
    \/ ScoreMem
    \/ DraftRead
    \/ DraftStore
    \/ Schedule
    \/ Evaluate
    \/ PipelineReturn
    \/ ProcessExit
    \/ \E f \in 1 .. Len(fus) : WaiterRead(f)
    \/ \E f \in 1 .. Len(fus) : WaiterStore(f)
    \/ \E f \in 1 .. Len(fus) : WaiterMem(f)

SpecScore == InitScore /\ [][NextScore]_vars

\* ---------------------------------------------------------------- claims

\* handle_batch has returned to pipeline().
HandleBatchDone == mpc \notin {"spawn", "join", "drain"}

IsEnriched(ev) == "enriched" \in DOMAIN ev
IsQual(ev) == "qualification" \in DOMAIN ev
IsFollowup(ev) == "followup" \in DOMAIN ev

Count(seq, P(_)) == Cardinality({k \in 1 .. Len(seq) : P(seq[k])})

IsPrefix(s, t) == Len(s) <= Len(t) /\ \A k \in 1 .. Len(s) : s[k] = t[k]

\* The leads of the batch whose enrichment succeeds, with the lead id `id`.
EnrichedWorkers(id) ==
    {i \in 1 .. Len(leads) : ~EnrichFails(leads[i]) /\ leads[i].id = id}

\* C1: the collection handle_batch returns has exactly one entry per input
\* lead, in every interleaving of the workers.
C1_OutputSizeEqualsInput == HandleBatchDone => Len(results) = Len(leads)

\* The main thread's upsert for the current lead has stored its record.
MainScoreStored == mpc \in {"score_m", "draft", "draft_w", "sched"}

\* C2: upserts to one lead id made concurrently by different threads all
\* land: once a follow-up's upsert has been stored the record has
\* followup_due, and once the scoring upsert has been stored the record
\* holds the score it wrote until the main thread upserts again.
C2_NoLostUpdate ==
    /\ \A f \in 1 .. Len(fus) :
          fus[f].pc \in {"mem", "done"} =>
              "followup_due" \in DOMAIN CrmGet(db, fus[f].id)
    /\ MainScoreStored =>
          /\ "score" \in DOMAIN CrmGet(db, Cur.id)
          /\ CrmGet(db, Cur.id).score = ScoreOf(Cur)

\* C3: when handle_batch has returned, every worker of the batch has ended
\* and every enrichment event the workers write is in the ledger.
C3_ReturnAfterAllWorkers ==
    HandleBatchDone =>
        /\ \A i \in 1 .. Len(leads) : wpc[i] \in {"done", "dead"}
        /\ \A id \in Ids :
              Count(MemRead(mem, id), IsEnriched) = Cardinality(EnrichedWorkers(id))

C3_Witness ==
    /\ mpc = "score"
    /\ mi = 1
    /\ Len(leads) = 2
    /\ Len(results) = 2

\* C4: in one lead's ledger no enrichment event follows a qualification or
\* follow-up event, every qualification event has an enrichment event before
\* it, and the k-th follow-up event has at least k qualification events
\* before it.
C4_LedgerOrder ==
    \A id \in Ids :
        LET s == MemRead(mem, id) IN
        \A k \in 1 .. Len(s) :
            /\ IsEnriched(s[k]) => \A j \in 1 .. k : IsEnriched(s[j])
            /\ IsQual(s[k]) => \E j \in 1 .. (k - 1) : IsEnriched(s[j])
            /\ IsFollowup(s[k]) =>
                  Count(SubSeq(s, 1, k), IsFollowup) <= Count(SubSeq(s, 1, k), IsQual)

C4_Witness ==
    \E id \in Ids :
        LET s == MemRead(mem, id) IN
        /\ Len(s) = 3
        /\ IsEnriched(s[1]) /\ IsQual(s[2]) /\ IsFollowup(s[3])

\* C5: the ledger is append-only: in every step, each lead's sequence before
\* the step is a prefix of its sequence after the step.
C5_AppendOnly ==
    [][\A id \in Ids : IsPrefix(MemRead(mem, id), MemRead(mem', id))]_vars

\* Two workers have written to the same lead's ledger while the batch is
\* still being enriched.
C5_Witness ==
    /\ ~HandleBatchDone
    /\ \E id \in Ids : Len(MemRead(mem, id)) = 2

\* The leads of results that score() has upserted.
Scored ==
    IF ~HandleBatchDone THEN {}
    ELSE {j \in 1 .. Len(results) : j < mi \/ (j = mi /\ MainScoreStored)}

\* C6: the record of every scored lead has a status, and status is
\* "qualified" exactly when the record's score is above 50.
C6_StatusIffScoreAbove50 ==
    /\ \A j \in Scored : results[j].id \in DOMAIN db
    /\ \A id \in DOMAIN db :
          /\ {"score", "status"} \subseteq DOMAIN db[id]
          /\ db[id].status \in {"qualified", "nurture"}
          /\ db[id].status = "qualified" <=> db[id].score > 50

\* A record scored exactly 50 is "nurture", and a follow-up has fired on it.
C6_Witness ==
    \E id \in DOMAIN db :
        /\ db[id].score = 50
        /\ db[id].status = "nurture"
        /\ "followup_due" \in DOMAIN db[id]
        /\ "outreach" \in DOMAIN db[id]

\* Position of a waiter thread: sleeping (pending), read done, store done,
\* event written (fired).
Rank(pc) ==
    CASE pc = "sleep" -> 0
      [] pc = "upsert" -> 1
      [] pc = "mem" -> 2
      [] pc = "done" -> 3
      [] OTHER -> 4

\* C7: a pending follow-up can be cancelled: while it has not fired, the
\* program has a step that takes it from pending to cancelled (after which
\* it makes no upsert and writes no event).
C7_PendingCanBeCancelled ==
    \A f \in 1 .. Len(fus) :
        fus[f].pc = "sleep" => ENABLED (Next /\ fus'[f].pc = "cancelled")

\* The follow-up threads of lead `id` that have fired.
Fired(id) == {f \in 1 .. Len(fus) : fus[f].id = id /\ fus[f].pc = "done"}

\* C8: a follow-up that fires acts exactly once: a waiter only moves forward,
\* one position per step; its store step leaves followup_due = TRUE in the
\* record and its write step appends the one event {followup: note}; and
\* each ledger holds as many followup events as follow-ups of that lead have
\* fired.
C8_FiresExactlyOnce ==
    /\ [](\A id \in Ids : Count(MemRead(mem, id), IsFollowup) = Cardinality(Fired(id)))
    /\ [][\A f \in 1 .. Len(fus) :
            LET a == fus[f]
                b == fus'[f]
            IN  /\ b.id = a.id
                /\ Rank(b.pc) \in {Rank(a.pc), Rank(a.pc) + 1}
                /\ Rank(b.pc) <= 3
                /\ (a.pc = "upsert" /\ b.pc = "mem") =>
                      /\ a.id \in DOMAIN db'
                      /\ "followup_due" \in DOMAIN db'[a.id]
                      /\ db'[a.id].followup_due = TRUE
                      /\ mem' = mem
                /\ (a.pc = "mem" /\ b.pc = "done") =>
                      /\ MemRead(mem', a.id)
                            = Append(MemRead(mem, a.id), [followup |-> "1st follow up"])
                      /\ db' = db
         ]_vars

C8_Witness ==
    \E f \in 1 .. Len(fus) :
        /\ fus[f].pc = "done"
        /\ Count(MemRead(mem, fus[f].id), IsFollowup) = 1
        /\ CrmGet(db, fus[f].id).followup_due = TRUE

\* An error marker event of the ledger.
IsErrorMarker(ev) == "error" \in DOMAIN ev

\* C9: when a lead's enrichment fails, handle_batch returns that lead with
\* its fields unchanged and an error marker event is in the lead's ledger.
C9_FailedLeadKept ==
    HandleBatchDone =>
        \A i \in 1 .. Len(leads) :
            EnrichFails(leads[i]) =>
                /\ \E j \in 1 .. Len(results) : results[j] = leads[i]
                /\ HasId(leads[i]) =>
                      Count(MemRead(mem, leads[i].id), IsErrorMarker) >= 1

\* A worker-pool size below the longest batch; handle_batch takes none.
PoolSize == MaxLeads - 1

\* Workers started and not yet ended.
InFlight == Cardinality({i \in 1 .. Len(leads) : wpc[i] \in {"run", "write", "put"}})

\* C10: the enrichments in flight never exceed the worker-pool size.
C10_InFlightBounded == InFlight <= PoolSize

\* C11: no follow-up is abandoned: when the process has exited, every
\* scheduled follow-up has fired to completion or was cancelled.
C11_NoPendingAtExit ==
    mpc = "exited" => \A f \in 1 .. Len(fus) : fus[f].pc \in {"done", "cancelled"}

\* The step stores upsert(id, payload): the records of other ids are as
\* before, every key of payload holds payload's value, and every other key
\* the record had before the step is kept with its value.
UpsertFrame(id, payload) ==
    /\ \A o \in DOMAIN db \ {id} : o \in DOMAIN db' /\ db'[o] = db[o]
    /\ id \in DOMAIN db'
    /\ \A k \in DOMAIN payload : k \in DOMAIN db'[id] /\ db'[id][k] = payload[k]
    /\ \A k \in DOMAIN CrmGet(db, id) \ DOMAIN payload :
          k \in DOMAIN db'[id] /\ db'[id][k] = db[id][k]

\* C12: upsert only adds or overwrites: each store of an upsert (by score,
\* by draft, by a waiter) keeps every key the record had, sets the keys of
\* its payload and leaves the other keys and the other records as they were.
C12_UpsertOnlyAddsOrOverwrites ==
    [][ /\ (mpc = "score_w" /\ mpc' = "score_m") =>
              UpsertFrame(Cur.id, [score |-> ScoreOf(Cur), status |-> StatusOf(ScoreOf(Cur))])
        /\ (mpc = "draft_w" /\ mpc' = "sched") => UpsertFrame(Cur.id, DraftPayload(Cur))
        /\ \A f \in 1 .. Len(fus) :
              (fus[f].pc = "upsert" /\ fus'[f].pc = "mem") =>
                  UpsertFrame(fus[f].id, [followup_due |-> TRUE])
      ]_vars

\* The record or the ledger of `id` shows outreach or a follow-up.
HasOutreachOrFollowup(id) ==
    \/ "outreach" \in DOMAIN CrmGet(db, id)
    \/ "followup_due" \in DOMAIN CrmGet(db, id)
    \/ Count(MemRead(mem, id), IsFollowup) > 0

\* C13 as stated: a record with outreach or followup_due, and a ledger with
\* a followup event, belong to a lead whose stored score is above 50.
C13_StoredScoreAbove50 ==
    \A id \in Ids :
        HasOutreachOrFollowup(id) =>
            /\ "score" \in DOMAIN CrmGet(db, id)
            /\ db[id].score > 50

\* C13 amended: a record with outreach or followup_due, and a ledger with a
\* followup event, belong to a lead id under which the pipeline has scored a
\* lead above 50 in this run.
C13_OnlyQualifiedLeads ==
    \A id \in Ids :
        HasOutreachOrFollowup(id) =>
            \E j \in Scored : results[j].id = id /\ ScoreOf(results[j]) > 50

C13_Witness ==
    \E id \in Ids :
        /\ "outreach" \in DOMAIN CrmGet(db, id)
        /\ "followup_due" \in DOMAIN CrmGet(db, id)
        /\ Count(MemRead(mem, id), IsFollowup) = 1
        /\ db[id].score = 55

\* The sum of the contributions of the rules that hold for e.
RuleSum(e) ==
    (IF "employee_count" \in DOMAIN e /\ e.employee_count >= 50 THEN 30 ELSE 0)
    + (IF "industry" \in DOMAIN e /\ e.industry = "FinTech" THEN 25 ELSE 0)
    + (IF "recent_news" \in DOMAIN e /\ e.recent_news = "Series A" THEN 20 ELSE 0)

\* C14: the score that score() stores and returns is the sum of the
\* contributions (30, 25, 20) of the rules that hold, capped at 100, and is
\* within 0 .. 100.
C14_ScoreIsCappedRuleSum ==
    /\ \A j \in Scored :
          /\ results[j].id \in DOMAIN db
          /\ db[results[j].id].score \in 0 .. 100
          /\ db[results[j].id].score
                = (IF RuleSum(results[j]) > 100 THEN 100 ELSE RuleSum(results[j]))
    /\ \A j \in 1 .. Len(processed) :
          /\ processed[j].score \in 0 .. 100
          /\ processed[j].score
                = (IF RuleSum(results[j]) > 100 THEN 100 ELSE RuleSum(results[j]))

\* A lead with exactly 50 employees and a Series A, no industry: 30 + 20.
C14_Witness ==
    /\ Len(processed) = 1
    /\ "industry" \notin DOMAIN results[1]
    /\ "employee_count" \in DOMAIN results[1]
    /\ results[1].employee_count = 50
    /\ processed[1].score = 50
    /\ "L1" \in DOMAIN db
    /\ db["L1"].score = 50

\* The step is the call of evaluate_predictions by pipeline().
EvaluateStep == mpc = "score" /\ mpc' = "metrics" /\ DOMAIN labeled # {}

\* C15: evaluate_predictions is read-only: the record store (its ids and
\* every record) and the ledger are the same after the call as before it.
C15_EvaluateReadOnly == [][EvaluateStep => (db' = db /\ mem' = mem)]_vars

\* The metrics were computed for a mapping that names an id with no record.
C15_Witness ==
    /\ mpc = "metrics"
    /\ "L3" \in DOMAIN labeled
    /\ "L3" \notin DOMAIN db
    /\ "L1" \in DOMAIN db
    /\ metrics # EmptyRec

\* The status evaluate_predictions reads for id in store d.
StatusIn(d, id) ==
    IF id \in DOMAIN d /\ "status" \in DOMAIN d[id] THEN d[id].status ELSE "nurture"

\* m is the confusion matrix of store d against the mapping lab, with
\* precision and recall as fractions.
IsConfusionMatrix(m, d, lab) ==
    LET Q == {id \in DOMAIN lab : StatusIn(d, id) = "qualified"}
        L == {id \in DOMAIN lab : lab[id] = "qualified"}
    IN  /\ m.tp = Cardinality(Q \cap L)
        /\ m.fp = Cardinality(Q \ L)
        /\ m.fn = Cardinality(L \ Q)
        /\ m.tn = Cardinality(DOMAIN lab \ (Q \cup L))
        /\ m.tp + m.fp + m.tn + m.fn = Cardinality(DOMAIN lab)
        /\ IF m.tp + m.fp = 0 THEN m.precision = <<0, 1>>
           ELSE m.precision[1] * (m.tp + m.fp) = m.tp * m.precision[2]
        /\ IF m.tp + m.fn = 0 THEN m.recall = <<0, 1>>
           ELSE m.recall[1] * (m.tp + m.fn) = m.tp * m.recall[2]

\* C16: evaluate_predictions counts every labeled id in exactly one of tp,
\* fp, tn, fn by the record's status ("nurture" when the record or the
\* status is absent), precision is 0.0 when tp+fp = 0 and recall is 0.0 when
\* tp+fn = 0; on the empty mapping all six results are zero.
C16_ConfusionMatrix ==
    /\ [][EvaluateStep => IsConfusionMatrix(metrics', db, labeled)]_vars
    /\ [](LET m == EvaluatePredictions(db, EmptyRec)
          IN  /\ IsConfusionMatrix(m, db, EmptyRec)
              /\ m.precision = <<0, 1>> /\ m.recall = <<0, 1>>)

\* A labeled id has no record and is counted as a false negative; nothing is
\* predicted qualified, so precision is 0.0.
C16_Witness ==
    /\ mpc = "metrics"
    /\ "L3" \in DOMAIN labeled
    /\ "L3" \notin DOMAIN db
    /\ metrics # EmptyRec
    /\ metrics.tp + metrics.fp = 0
    /\ metrics.fn = 1
    /\ metrics.tn = 1

\* C17: an enrichment call that never completes does not block the barrier
\* forever: handle_batch eventually returns.
C17_HandleBatchReturns == <>HandleBatchDone

\* pipeline() has returned its result.
PipelineDone == mpc \in {"returned", "exited"}

\* Lead i of the batch is in the processed list.
InOutput(i) ==
    \E j \in 1 .. Len(processed) :
        /\ "id" \in DOMAIN processed[j]
        /\ processed[j].id = leads[i].id
        /\ processed[j].company_name = leads[i].company_name
        /\ processed[j].notes = leads[i].notes

\* C18: a lead with no identifier is left out of the output and every other
\* lead of the batch is enriched, scored and in the output.
C18_OnlyMalformedLeadExcluded ==
    (PipelineDone /\ \E i \in 1 .. Len(leads) : ~HasId(leads[i])) =>
        /\ \A j \in 1 .. Len(processed) : "id" \in DOMAIN processed[j]
        /\ \A i \in 1 .. Len(leads) :
              HasId(leads[i]) =>
                  /\ Count(MemRead(mem, leads[i].id), IsEnriched) >= 1
                  /\ "score" \in DOMAIN CrmGet(db, leads[i].id)
                  /\ InOutput(i)

\* C19: the stores in the value pipeline() returned are a point-in-time
\* view: a later upsert or ledger write does not change what its holder sees.
C19_SnapshotIsPointInTime ==
    [][(ret # EmptyRec /\ ret' = ret) =>
          /\ Seen(ret'.crm, db') = Seen(ret.crm, db)
          /\ Seen(ret'.memory, mem') = Seen(ret.memory, mem)
      ]_vars

\* The batch has pairwise distinct ids and every enrichment succeeds.
DistinctAndSound ==
    /\ \A i \in 1 .. Len(leads) : ~EnrichFails(leads[i])
    /\ \A i, j \in 1 .. Len(leads) : i # j => leads[i].id # leads[j].id

\* The scoring loop is over and every follow-up it scheduled has fired.
AllFired ==
    /\ mpc \in {"metrics", "returned", "exited"}
    /\ \A f \in 1 .. Len(fus) : fus[f].pc = "done"

\* The record, the event kinds and the processed entry that the input lead
\* alone determines.
FinalRecord(lead) ==
    LET e == Combined(lead)
    IN  IF ScoreOf(e) > 50
        THEN Merge(Merge(ScorePayload(e), DraftPayload(e)), [followup_due |-> TRUE])
        ELSE ScorePayload(e)

FinalKinds(lead) ==
    IF ScoreOf(Combined(lead)) > 50
    THEN <<"enriched", "qualification", "followup">>
    ELSE <<"enriched", "qualification">>

KindOf(ev) == CHOOSE k \in DOMAIN ev : TRUE

\* C20: for a batch with pairwise distinct ids whose enrichments succeed,
\* once every follow-up has fired the record of each lead, the kinds of the
\* events of its ledger and the set of processed entries are those the input
\* determines, whatever the interleaving.
C20_OutcomeIndependentOfSchedule ==
    (DistinctAndSound /\ AllFired) =>
        /\ DOMAIN db = {leads[i].id : i \in 1 .. Len(leads)}
        /\ DOMAIN mem = DOMAIN db
        /\ \A i \in 1 .. Len(leads) :
              /\ db[leads[i].id] = FinalRecord(leads[i])
              /\ [k \in 1 .. Len(mem[leads[i].id]) |-> KindOf(mem[leads[i].id][k])]
                    = FinalKinds(leads[i])
        /\ {processed[j] : j \in 1 .. Len(processed)}
              = {Merge(Combined(leads[i]), QualResult(Combined(leads[i]))) :
                    i \in 1 .. Len(leads)}
        /\ Len(processed) = Len(leads)

\* Two leads with different ids, both qualified, both follow-ups fired.
C20_Witness ==
    /\ DistinctAndSound
    /\ AllFired
    /\ Len(leads) = 2
    /\ Len(fus) = 2

====
